---- MODULE Spec2Model ----
(***************************************************************************)
(* Model of the Sync Settings extension entry point (src/src/extension.ts):*)
(* activate(), the what's-new notification policy, command registration,   *)
(* the settings.yml file watcher with its ThrottledDelayer, the cron       *)
(* set-up on activation and on configuration change, and the Sync          *)
(* Operations started by the registered command handlers.                  *)
(*                                                                         *)
(* activate() is an async function: it runs atomically between its two     *)
(* awaits (line 142 and line 183), so it is three steps.  The modules it   *)
(* imports (utils/async.js, crons.js, settings.js, repository-factory.js,  *)
(* commands/*.js) are modelled from the specification.                      *)
(***************************************************************************)
EXTENDS Integers, Sequences, FiniteSets, TLC

VARIABLES
    \* ---- host state read by activate() ----
    globalState,        \* context.globalState[VERSION_KEY]: an optional string
    currentVersion,     \* pkg.version
    notification,       \* config 'syncSettings.notification'
    cronsConfig,        \* config 'syncSettings.crons'
    \* ---- activate() ----
    pc,                 \* position of activate()
    previousVersion,    \* the constant read at line 114
    shown,              \* number of showWhatsNewMessage() calls
    loadState,          \* Settings singleton: "idle", "pending", "loaded", "failed"
    notLoaded,          \* number of NotLoadedError raised by Settings.get()
    registry,           \* the host's command registry: sequence of registrations
    disposables,        \* the local array of line 144
    subscriptions,      \* context.subscriptions
    watcherInstalled,   \* watcher.onDidChange callback installed (line 172)
    listenerInstalled,  \* onDidChangeConfiguration listener installed (line 185)
    cronsResult,        \* outcome of the setupCrons() call of line 183
    logged,             \* number of Logger.error() calls
    \* ---- file watcher and ThrottledDelayer ----
    timeout,            \* the Delayer's timer: remaining ms, 0 when not armed
    activePromise,      \* the Throttler runs a task
    queuedFactory,      \* the Throttler holds a queued task
    inflight,           \* RepositoryFactory.reload() calls running
    dirty,              \* a change event not yet followed by a reload() start
    escaped,            \* rejections that left the watcher callback
    failures,           \* reload() calls that threw
    win,                \* the current delay window (history)
    \* ---- cron timers ----
    timers,             \* armed timers, one schedule per element
    cronCalls,          \* setupCrons() calls that are suspended
    cronsCalled,        \* setupCrons() has been called
    \* ---- sync operations ----
    running,            \* operations Running, in start order
    opQueue,            \* mutating operations Pending, FIFO
    \* ---- the host ----
    events              \* events the host has delivered so far

vars == <<globalState, currentVersion, notification, cronsConfig, pc,
          previousVersion, shown, loadState, notLoaded, registry, disposables,
          subscriptions, watcherInstalled, listenerInstalled, cronsResult,
          logged, timeout, activePromise, queuedFactory, inflight, dirty,
          escaped, failures, win, timers, cronCalls, cronsCalled,
          running, opQueue, events>>

hostVars == <<currentVersion, notification>>
activateVars == <<pc, previousVersion, shown, loadState, notLoaded, registry,
                  disposables, subscriptions, watcherInstalled,
                  listenerInstalled, cronsResult>>
watcherVars == <<timeout, activePromise, queuedFactory, inflight, dirty,
                 escaped, failures, win>>
cronVars == <<timers, cronCalls, cronsCalled>>
opVars == <<running, opQueue>>

(***************************************************************************)
(* Strings.  A JavaScript string is its sequence of UTF-16 code units;     *)
(* ===, > and split() work on those.                                       *)
(***************************************************************************)
Dot == 46                       \* the code unit of '.'
DigitUnit(d) == 48 + d          \* the code unit of the digit d

\* Number.prototype.toString of a non-negative integer (how a version part is
\* written in package.json).
RECURSIVE Dec(_)
Dec(n) == IF n < 10 THEN <<DigitUnit(n)>>
          ELSE Dec(n \div 10) \o <<DigitUnit(n % 10)>>

\* The number a decimal string denotes.
RECURSIVE Num(_)
Num(s) == IF s = <<>> THEN 0
          ELSE 10 * Num(SubSeq(s, 1, Len(s) - 1)) + (s[Len(s)] - DigitUnit(0))

\* "major.minor.patch"
VersionString(major, minor, patch) ==
    Dec(major) \o <<Dot>> \o Dec(minor) \o <<Dot>> \o Dec(patch)

\* String.prototype.split(sep) for a one-unit separator: the pieces between
\* the separators, in order.
RECURSIVE Split(_, _)
Split(s, sep) ==
    IF \A i \in 1..Len(s) : s[i] # sep THEN <<s>>
    ELSE LET k == CHOOSE i \in 1..Len(s) :
                      s[i] = sep /\ \A j \in 1..(i - 1) : s[j] # sep
         IN <<SubSeq(s, 1, k - 1)>> \o Split(SubSeq(s, k + 1, Len(s)), sep)

\* a > b on two strings: the comparison of the code units at the first
\* position where they differ; a proper prefix is the smaller.
StringGreater(a, b) ==
    LET n == IF Len(a) < Len(b) THEN Len(a) ELSE Len(b)
        diff == {i \in 1..n : a[i] # b[i]}
    IN IF diff = {} THEN Len(a) > Len(b)
       ELSE LET k == CHOOSE i \in diff : \A j \in diff : i <= j
            IN a[k] > b[k]

\* An optional string: undefined, or a value.
Undefined == [defined |-> FALSE, value |-> <<>>]
Some(s) == [defined |-> TRUE, value |-> s]

(***************************************************************************)
(* Bounds of the model.                                                    *)
(***************************************************************************)
MaxEvents == 3          \* events the host delivers: file changes, command
                        \* executions, configuration changes
MaxPatch == 1           \* largest patch number of a version

\* Version parts tried: one- and two-digit numbers on both sides of 9 -> 10.
PartValues == {1, 2, 9, 10}
Versions == {VersionString(a, b, c) :
                a \in PartValues, b \in PartValues, c \in 0..MaxPatch}
Notifications == {"none", "minor", "major", "all", "other"}

(***************************************************************************)
(* The what's-new decision of activate(), lines 119-140.                   *)
(***************************************************************************)
ShowsWhatsNew(prev, cur, notif) ==
    IF ~(~prev.defined \/ cur # prev.value) THEN FALSE
    ELSE IF ~prev.defined THEN FALSE
    ELSE LET c == Split(cur, Dot)
             p == Split(prev.value, Dot)
         IN IF notif = "major" THEN StringGreater(c[1], p[1])
            ELSE IF notif = "minor"
                 THEN \/ StringGreater(c[1], p[1])
                      \/ (c[1] = p[1] /\ StringGreater(c[2], p[2]))
            ELSE notif # "none"

(***************************************************************************)
(* Command registration, lines 146-160, and the tree view's items,         *)
(* lines 37-51.                                                            *)
(***************************************************************************)
Reg(c, h) == [command |-> c, handler |-> h]

\* The registrations with 'syncSettings.upload' given the handler of
\* download and registered a second time in place of 'syncSettings.review'.
RegistrationsMiswired ==
    << Reg("syncSettings.createProfile", "createProfile"),
       Reg("syncSettings.deleteProfile", "deleteProfile"),
       Reg("syncSettings.download", "download"),
       Reg("syncSettings.listMissingExtensions", "listMissingExtensions"),
       Reg("syncSettings.openProfileDirectory", "openProfileDirectory"),
       Reg("syncSettings.openProfileSettings", "openProfileSettings"),
       Reg("syncSettings.openRepositoryDirectory", "openRepositoryDirectory"),
       Reg("syncSettings.openSettings", "openSettings"),
       Reg("syncSettings.reset", "reset"),
       Reg("syncSettings.upload", "download"),
       Reg("syncSettings.switchProfile", "switchProfile"),
       Reg("syncSettings.upload", "download"),
       Reg("syncSettings.viewDifferences", "viewDifferences") >>

Registrations ==
    << Reg("syncSettings.createProfile", "createProfile"),
       Reg("syncSettings.deleteProfile", "deleteProfile"),
       Reg("syncSettings.download", "download"),
       Reg("syncSettings.listMissingExtensions", "listMissingExtensions"),
       Reg("syncSettings.openProfileDirectory", "openProfileDirectory"),
       Reg("syncSettings.openProfileSettings", "openProfileSettings"),
       Reg("syncSettings.openRepositoryDirectory", "openRepositoryDirectory"),
       Reg("syncSettings.openSettings", "openSettings"),
       Reg("syncSettings.reset", "reset"),
       Reg("syncSettings.review", "review"),
       Reg("syncSettings.switchProfile", "switchProfile"),
       Reg("syncSettings.upload", "upload"),
       Reg("syncSettings.viewDifferences", "viewDifferences") >>

\* CommandsViewProvider.commands: the command of each tree item.
commands ==
    << "syncSettings.createProfile", "syncSettings.deleteProfile",
       "syncSettings.download", "syncSettings.listMissingExtensions",
       "syncSettings.openProfileDirectory", "syncSettings.openProfileSettings",
       "syncSettings.openRepositoryDirectory", "syncSettings.openSettings",
       "syncSettings.reset", "syncSettings.review",
       "syncSettings.switchProfile", "syncSettings.upload",
       "syncSettings.viewDifferences" >>

\* The disposables of lines 146-166: one per registered command, then the
\* tree data provider.
Disposables ==
    [i \in 1..Len(Registrations) |-> Registrations[i].command]
        \o <<"syncSettingsCommands">>

(***************************************************************************)
(* crons.js, from the specification (section 4.6): setupCrons() reads the  *)
(* schedule expressions, fails fast with InvalidScheduleError when one is  *)
(* invalid, leaving the armed timers as they are, and otherwise disarms    *)
(* every armed timer and arms one per expression.  It is asynchronous      *)
(* (activate() and the listener await it): where it suspends is not        *)
(* stated, so a call may run to its end at once, suspend before it disarms *)
(* or suspend between disarming and arming.  It reads the configuration    *)
(* and validates it when it is called.                                     *)
(***************************************************************************)
CronConfigs == { <<>>, <<"hourly">>, <<"hourly", "daily">>, <<"bad">>,
                 <<"daily", "bad">> }

ValidSchedule(e) == e # "bad"
ValidCrons(cfg) == \A i \in 1..Len(cfg) : ValidSchedule(cfg[i])

Disarm(armed) == <<>>
Arm(armed, cfg) == armed \o cfg

\* The timers armed after setupCrons() has run on cfg.
setupCrons(armed, cfg) ==
    IF ValidCrons(cfg) THEN Arm(Disarm(armed), cfg) ELSE armed

\* Where a setupCrons() call suspends.
Suspensions == {"none", "before", "between"}

\* How a setupCrons() call on cfg that suspends as s stands when it returns
\* its promise: rejected ("error"), resolved ("ok") or pending.
setupCronsResult(cfg, s) ==
    IF ~ValidCrons(cfg) THEN "error"
    ELSE IF s = "none" THEN "ok" ELSE "pending"

\* The timers armed when a setupCrons() call on cfg that suspends as s
\* returns its promise.
setupCronsCalled(armed, cfg, s) ==
    IF ~ValidCrons(cfg) \/ s = "before" THEN armed
    ELSE IF s = "between" THEN Disarm(armed)
    ELSE setupCrons(armed, cfg)

\* The suspended calls after a setupCrons() call on cfg, made by caller,
\* that suspends as s.
setupCronsSuspended(calls, cfg, s, caller) ==
    IF ~ValidCrons(cfg) \/ s = "none" THEN calls
    ELSE Append(calls, [cfg |-> cfg, at |-> s, caller |-> caller])

\* The timers armed after the suspended call c has gone on to its end.
setupCronsResumed(armed, c) ==
    IF c.at = "before" THEN Arm(Disarm(armed), c.cfg) ELSE Arm(armed, c.cfg)

(***************************************************************************)
(* commands/*.js and the Sync Orchestrator, from the specification         *)
(* (sections 3, 4.5 and 5): download, upload, reset and switchProfile      *)
(* mutate and hold the mutual-exclusion token; review only reads; the      *)
(* other commands start no Sync Operation.                                 *)
(***************************************************************************)
Mutating == {"download", "upload", "reset", "switchProfile"}
ReadOnly == {"review"}

MutatingRunning(run) == {i \in DOMAIN run : run[i] \in Mutating}

\* Whether a new operation of kind h may go from Pending to Running at once.
MayStartAlways(h, run) == TRUE

MayStart(h, run) == h \in ReadOnly \/ MutatingRunning(run) = {}

RemoveAt(q, i) == SubSeq(q, 1, i - 1) \o SubSeq(q, i + 1, Len(q))

\* A queued operation dropped because a newer one of its kind supersedes it.
Supersede(q, h) == SelectSeq(q, LAMBDA k : k # h)

\* The handler the host runs for a command: that of its registration.
HandlerOf(c) ==
    LET i == CHOOSE j \in DOMAIN registry :
                 registry[j].command = c
                 /\ \A k \in 1..(j - 1) : registry[k].command # c
    IN registry[i].handler

(***************************************************************************)
(* Initial states: the host has loaded the extension and not yet called    *)
(* activate().                                                             *)
(***************************************************************************)
NoWindow == [events |-> 0, starts |-> 0, idle |-> TRUE, closed |-> FALSE]

InitExtension ==
    /\ pc = "start"
    /\ previousVersion = Undefined
    /\ shown = 0
    /\ loadState = "idle"
    /\ notLoaded = 0
    /\ registry = <<>>
    /\ disposables = <<>>
    /\ subscriptions = <<>>
    /\ watcherInstalled = FALSE
    /\ listenerInstalled = FALSE
    /\ cronsResult = "none"
    /\ logged = 0
    /\ timeout = 0
    /\ activePromise = FALSE
    /\ queuedFactory = FALSE
    /\ inflight = 0
    /\ dirty = FALSE
    /\ escaped = 0
    /\ failures = 0
    /\ win = NoWindow
    /\ timers = <<>>
    /\ cronCalls = <<>>
    /\ cronsCalled = FALSE
    /\ running = <<>>
    /\ opQueue = <<>>
    /\ events = 0

\* A first install: no version stored yet.
Init ==
    /\ globalState = Undefined
    /\ currentVersion = VersionString(2, 1, 0)
    /\ notification = "all"
    /\ cronsConfig \in CronConfigs
    /\ InitExtension

\* An update or a restart: any stored version, any current version.
InitWhatsNew ==
    /\ globalState \in {Undefined} \cup {Some(v) : v \in Versions}
    /\ currentVersion \in Versions
    /\ notification \in Notifications
    /\ cronsConfig \in CronConfigs
    /\ InitExtension

(***************************************************************************)
(* activate(), lines 111-192.                                              *)
(***************************************************************************)
\* Lines 112-142, up to the await: the what's-new decision, then
\* Settings.load() is called.
ActivateStart ==
    /\ pc = "start"
    /\ previousVersion' = globalState
    /\ globalState' = IF ~globalState.defined \/ currentVersion # globalState.value
                      THEN Some(currentVersion) ELSE globalState
    /\ shown' = IF ShowsWhatsNew(globalState, currentVersion, notification)
                THEN shown + 1 ELSE shown
    /\ loadState' = "pending"
    /\ pc' = "awaitLoad"
    /\ UNCHANGED <<hostVars, cronsConfig, notLoaded, registry, disposables,
                   subscriptions, watcherInstalled, listenerInstalled,
                   cronsResult, logged, watcherVars, cronVars, opVars, events>>

\* settings.js: Settings.load() resolves, the singleton is set.
SettingsLoadResolves ==
    /\ loadState = "pending"
    /\ loadState' = "loaded"
    /\ UNCHANGED <<globalState, hostVars, cronsConfig, pc, previousVersion,
                   shown, notLoaded, registry, disposables, subscriptions,
                   watcherInstalled, listenerInstalled, cronsResult, logged,
                   watcherVars, cronVars, opVars, events>>

\* settings.js: Settings.load() rejects, the singleton stays unset.
SettingsLoadRejects ==
    /\ loadState = "pending"
    /\ loadState' = "failed"
    /\ UNCHANGED <<globalState, hostVars, cronsConfig, pc, previousVersion,
                   shown, notLoaded, registry, disposables, subscriptions,
                   watcherInstalled, listenerInstalled, cronsResult, logged,
                   watcherVars, cronVars, opVars, events>>

\* Line 142: activate() goes on once the promise of Settings.load() has
\* resolved.
LoadNotAwaited == loadState \in {"pending", "loaded"}

LoadAwaited == loadState = "loaded"

\* Line 142, the promise rejected: activate() rejects.
ActivateRejectsOnLoad ==
    /\ pc = "awaitLoad"
    /\ loadState = "failed"
    /\ pc' = "rejected"
    /\ UNCHANGED <<globalState, hostVars, cronsConfig, previousVersion, shown,
                   loadState, notLoaded, registry, disposables, subscriptions,
                   watcherInstalled, listenerInstalled, cronsResult, logged,
                   watcherVars, cronVars, opVars, events>>

\* Lines 144-183, up to the await: the commands and the tree view are
\* registered, Settings.get() is called, the watcher callback is installed
\* and setupCrons() is called.  Settings.get() throws NotLoadedError when
\* the singleton is not set (specification, section 4.1), and activate()
\* rejects there.
ActivateAfterLoad(s) ==
    /\ pc = "awaitLoad"
    /\ LoadAwaited
    /\ registry' = registry \o Registrations
    /\ disposables' = disposables \o Disposables
    /\ IF loadState = "loaded"
       THEN /\ watcherInstalled' = TRUE
            /\ timers' = setupCronsCalled(timers, cronsConfig, s)
            /\ cronsResult' = setupCronsResult(cronsConfig, s)
            /\ cronCalls' = setupCronsSuspended(cronCalls, cronsConfig, s,
                                                "activate")
            /\ cronsCalled' = TRUE
            /\ pc' = "awaitCrons"
            /\ UNCHANGED notLoaded
       ELSE /\ notLoaded' = notLoaded + 1
            /\ pc' = "rejected"
            /\ UNCHANGED <<watcherInstalled, timers, cronsResult, cronCalls,
                           cronsCalled>>
    /\ UNCHANGED <<globalState, hostVars, cronsConfig, previousVersion, shown,
                   loadState, subscriptions, listenerInstalled, logged,
                   watcherVars, opVars, events>>

\* Lines 185-191, setupCrons() resolved: the configuration listener is
\* installed and the disposables are handed to the host.
ActivateAfterCrons ==
    /\ pc = "awaitCrons"
    /\ cronsResult = "ok"
    /\ listenerInstalled' = TRUE
    /\ subscriptions' = subscriptions \o disposables
    /\ pc' = "done"
    /\ UNCHANGED <<globalState, hostVars, cronsConfig, previousVersion, shown,
                   loadState, notLoaded, registry, disposables,
                   watcherInstalled, cronsResult, logged, watcherVars,
                   cronVars, opVars, events>>

\* Line 183, setupCrons() rejected: nothing catches it, activate() rejects.
ActivateRejectsOnCrons ==
    /\ pc = "awaitCrons"
    /\ cronsResult = "error"
    /\ pc' = "rejected"
    /\ UNCHANGED <<globalState, hostVars, cronsConfig, previousVersion, shown,
                   loadState, notLoaded, registry, disposables, subscriptions,
                   watcherInstalled, listenerInstalled, cronsResult, logged,
                   watcherVars, cronVars, opVars, events>>

\* activate() is ready to go on: the promise it awaits has settled.  Its
\* continuation is a microtask, which runs before the host delivers another
\* event.  While the promise is pending the host delivers events.
ContinuationReady ==
    \/ pc = "awaitLoad" /\ loadState \in {"loaded", "failed"}
    \/ pc = "awaitCrons" /\ cronsResult \in {"ok", "error"}

Activate ==
    \/ ActivateStart
    \/ SettingsLoadResolves
    \/ SettingsLoadRejects
    \/ ActivateRejectsOnLoad
    \/ \E s \in Suspensions : ActivateAfterLoad(s)
    \/ ActivateAfterCrons
    \/ ActivateRejectsOnCrons

(***************************************************************************)
(* The settings.yml watcher, lines 169-181.  utils/async.js is modelled    *)
(* from the specification (sections 4.3, 5 and 9): ThrottledDelayer is a   *)
(* timer that every trigger restarts, in front of a single-flight          *)
(* Throttler that runs one task at a time and keeps one queued task, which *)
(* it starts when the running one ends.                                    *)
(***************************************************************************)
defaultDelay == 200     \* new ThrottledDelayer<void>(200)
TickMs == 100           \* the step of the model's clock

\* A reload() call starts: the counters every start updates.
StartReload ==
    /\ inflight' = inflight + 1
    /\ dirty' = FALSE

\* Delayer.trigger(): the task is kept, the timer is cancelled and armed
\* again for the whole delay.
DelayerTrigger ==
    /\ timeout' = defaultDelay
    /\ win' = IF timeout = 0
              THEN [events |-> 1, starts |-> 0, idle |-> inflight = 0,
                    closed |-> FALSE]
              ELSE [win EXCEPT !.events = @ + 1,
                               !.idle = @ /\ inflight = 0]

\* The callback runs its task at once, without the delayer.
OnDidChangeDirect ==
    /\ watcherInstalled
    /\ events < MaxEvents
    /\ ~ContinuationReady
    /\ events' = events + 1
    /\ inflight' = inflight + 1
    /\ dirty' = FALSE
    /\ win' = IF timeout = 0
              THEN [events |-> 1, starts |-> 1, idle |-> inflight = 0,
                    closed |-> FALSE]
              ELSE [win EXCEPT !.events = @ + 1, !.starts = @ + 1,
                               !.idle = @ /\ inflight = 0]
    /\ UNCHANGED <<globalState, hostVars, cronsConfig, activateVars, logged,
                   timeout, activePromise, queuedFactory, escaped, failures,
                   cronVars, opVars>>

\* The callback skips the trigger while a reload is running.
OnDidChangeDropping ==
    /\ watcherInstalled
    /\ events < MaxEvents
    /\ ~ContinuationReady
    /\ events' = events + 1
    /\ dirty' = TRUE
    /\ IF inflight > 0
       THEN UNCHANGED <<timeout, win>>
       ELSE DelayerTrigger
    /\ UNCHANGED <<globalState, hostVars, cronsConfig, activateVars, logged,
                   activePromise, queuedFactory, inflight, escaped, failures,
                   cronVars, opVars>>

\* Lines 172-181: settings.yml changed, the callback triggers the delayer.
OnDidChange ==
    /\ watcherInstalled
    /\ events < MaxEvents
    /\ ~ContinuationReady
    /\ events' = events + 1
    /\ dirty' = TRUE
    /\ DelayerTrigger
    /\ UNCHANGED <<globalState, hostVars, cronsConfig, activateVars, logged,
                   activePromise, queuedFactory, inflight, escaped, failures,
                   cronVars, opVars>>

\* Time passes and the timer is not due yet.
Tick ==
    /\ timeout > TickMs
    /\ timeout' = timeout - TickMs
    /\ UNCHANGED <<globalState, hostVars, cronsConfig, activateVars, logged,
                   activePromise, queuedFactory, inflight, dirty, escaped,
                   failures, win, cronVars, opVars, events>>

\* The delay has elapsed: the Delayer hands its task to the Throttler, which
\* runs it (lines 173-180 up to the await: reload() is called) when no task
\* runs, and queues it otherwise.
TimeoutFires ==
    /\ timeout > 0
    /\ timeout <= TickMs
    /\ timeout' = 0
    /\ IF activePromise
       THEN /\ queuedFactory' = TRUE
            /\ win' = [win EXCEPT !.closed = TRUE]
            /\ UNCHANGED <<activePromise, inflight, dirty>>
       ELSE /\ activePromise' = TRUE
            /\ StartReload
            /\ win' = [win EXCEPT !.closed = TRUE, !.starts = @ + 1]
            /\ UNCHANGED queuedFactory
    /\ UNCHANGED <<globalState, hostVars, cronsConfig, activateVars, logged,
                   escaped, failures, cronVars, opVars, events>>

\* The Throttler's running task has ended: it starts the queued task, if any.
ThrottlerNext ==
    IF queuedFactory
    THEN /\ queuedFactory' = FALSE
         /\ activePromise' = TRUE
         /\ inflight' = inflight
         /\ dirty' = FALSE
         /\ win' = [win EXCEPT !.starts = @ + 1]
    ELSE /\ activePromise' = FALSE
         /\ inflight' = inflight - 1
         /\ UNCHANGED <<queuedFactory, dirty, win>>

\* Line 175, reload() returned: the task ends.
ReloadResolves ==
    /\ inflight > 0
    /\ ThrottlerNext
    /\ UNCHANGED <<globalState, hostVars, cronsConfig, activateVars, logged,
                   timeout, escaped, failures, cronVars, opVars, events>>

\* The task lets the error of reload() through.
ReloadErrorUncaught == [logged |-> logged, escaped |-> escaped + 1]

\* Lines 177-179: the error of reload() is caught and logged.
ReloadErrorCaught == [logged |-> logged + 1, escaped |-> escaped]

\* Line 175, reload() threw: the catch clause runs and the task ends.
ReloadRejects ==
    /\ inflight > 0
    /\ failures' = failures + 1
    /\ logged' = ReloadErrorCaught.logged
    /\ escaped' = ReloadErrorCaught.escaped
    /\ ThrottlerNext
    /\ UNCHANGED <<globalState, hostVars, cronsConfig, activateVars, timeout,
                   cronVars, opVars, events>>

Watcher ==
    \/ OnDidChange
    \/ Tick
    \/ TimeoutFires
    \/ ReloadResolves
    \/ ReloadRejects

(***************************************************************************)
(* Configuration changes, lines 185-189.                                   *)
(***************************************************************************)
\* Line 186: event.affectsConfiguration('syncSettings.crons').
ListenerCallsSetup(affectsCrons) == affectsCrons

\* The host changes the configuration (to cfg when the change is one of
\* 'syncSettings.crons') and tells the listener, if it is installed.  The
\* listener calls setupCrons(), whatever calls are still suspended, and
\* awaits it; nothing follows the await.
OnDidChangeConfiguration(cfg, affectsCrons, s) ==
    /\ events < MaxEvents
    /\ ~ContinuationReady
    /\ events' = events + 1
    /\ cronsConfig' = IF affectsCrons THEN cfg ELSE cronsConfig
    /\ IF listenerInstalled /\ ListenerCallsSetup(affectsCrons)
       THEN /\ timers' = setupCronsCalled(timers, cronsConfig', s)
            /\ cronCalls' = setupCronsSuspended(cronCalls, cronsConfig', s,
                                                "listener")
            /\ cronsCalled' = TRUE
       ELSE UNCHANGED <<timers, cronCalls, cronsCalled>>
    /\ UNCHANGED <<globalState, hostVars, activateVars, logged, watcherVars,
                   opVars>>

\* crons.js: the suspended setupCrons() call at position i goes on to its
\* end and its promise resolves; the one activate() awaits lets it go on.
setupCronsResumes(i) ==
    /\ i \in DOMAIN cronCalls
    /\ timers' = setupCronsResumed(timers, cronCalls[i])
    /\ cronCalls' = RemoveAt(cronCalls, i)
    /\ cronsResult' = IF cronCalls[i].caller = "activate" THEN "ok"
                      ELSE cronsResult
    /\ UNCHANGED <<globalState, hostVars, cronsConfig, pc, previousVersion,
                   shown, loadState, notLoaded, registry, disposables,
                   subscriptions, watcherInstalled, listenerInstalled, logged,
                   watcherVars, cronsCalled, opVars, events>>

Configure ==
    \/ \E cfg \in CronConfigs, affectsCrons \in BOOLEAN, s \in Suspensions :
           OnDidChangeConfiguration(cfg, affectsCrons, s)
    \/ \E i \in 1..(MaxEvents + 1) : setupCronsResumes(i)

(***************************************************************************)
(* Command executions and Sync Operations.                                 *)
(***************************************************************************)
\* The host runs the handler registered for command c.  The handler reads
\* Settings.get(), which throws NotLoadedError when the singleton is not set.
ExecuteCommand(c, supersede) ==
    /\ events < MaxEvents
    /\ ~ContinuationReady
    /\ \E i \in DOMAIN registry : registry[i].command = c
    /\ events' = events + 1
    /\ LET h == HandlerOf(c)
       IN IF loadState # "loaded"
          THEN /\ notLoaded' = notLoaded + 1
               /\ UNCHANGED <<running, opQueue>>
          ELSE /\ UNCHANGED notLoaded
               /\ IF h \notin Mutating \cup ReadOnly
                  THEN UNCHANGED <<running, opQueue>>
                  ELSE IF MayStart(h, running)
                  THEN /\ running' = Append(running, h)
                       /\ UNCHANGED opQueue
                  ELSE /\ opQueue' = Append(IF supersede
                                            THEN Supersede(opQueue, h)
                                            ELSE opQueue, h)
                       /\ UNCHANGED running
    /\ UNCHANGED <<globalState, hostVars, cronsConfig, pc, previousVersion,
                   shown, loadState, registry, disposables, subscriptions,
                   watcherInstalled, listenerInstalled, cronsResult, logged,
                   watcherVars, cronVars>>

\* The Running operation at position i reaches Succeeded or Failed; when it
\* held the token, the first Pending operation takes it.
OperationEnds(i) ==
    /\ i \in DOMAIN running
    /\ LET rest == RemoveAt(running, i)
       IN IF running[i] \in Mutating /\ opQueue # <<>>
          THEN /\ running' = Append(rest, Head(opQueue))
               /\ opQueue' = Tail(opQueue)
          ELSE /\ running' = rest
               /\ UNCHANGED opQueue
    /\ UNCHANGED <<globalState, hostVars, cronsConfig, activateVars, logged,
                   watcherVars, cronVars, events>>

Commands ==
    \/ \E i \in 1..Len(commands), supersede \in BOOLEAN :
           ExecuteCommand(commands[i], supersede)
    \/ \E i \in 1..MaxEvents : OperationEnds(i)

(***************************************************************************)
(* Specifications.                                                         *)
(***************************************************************************)
Next == Activate \/ Watcher \/ Configure \/ Commands

Spec == Init /\ [][Next]_vars

SpecWhatsNew == InitWhatsNew /\ [][Activate]_vars

\* Time passes, the timer fires when due, and every reload() call ends.
FairSpec ==
    /\ Spec
    /\ WF_vars(Tick)
    /\ WF_vars(TimeoutFires)
    /\ WF_vars(ReloadResolves \/ ReloadRejects)

(***************************************************************************)
(* Properties.                                                             *)
(***************************************************************************)

\* C1.  Debounce: the change events of one delay window that opened and
\* stayed with no reload in flight produce no reload() call while the window
\* is open and exactly one when the delay elapses, however many they are.
DebounceOneReload ==
    (win.events >= 1 /\ win.idle) =>
        win.starts = (IF win.closed THEN 1 ELSE 0)

\* A window of at least two events has been flushed into one reload().
DebounceWitness ==
    win.closed /\ win.idle /\ win.events >= 2 /\ win.starts = 1

\* C2.  Single flight: at most one reload() started by the watcher runs at
\* any time, and a task is queued only behind a running one.
SingleFlightReload ==
    /\ inflight <= 1
    /\ (inflight = 1) <=> activePromise
    /\ queuedFactory => activePromise

\* Changes arrived while a reload was running: one is queued behind it and
\* another waits for its delay.
SingleFlightWitness ==
    inflight = 1 /\ queuedFactory /\ timeout > 0

\* C3.  Mutual exclusion: at most one mutating Sync Operation is Running; an
\* operation is Pending only behind a Running mutating one, and only
\* mutating operations are ever Pending.
MutualExclusion ==
    /\ Cardinality(MutatingRunning(running)) <= 1
    /\ opQueue # <<>> => MutatingRunning(running) # {}
    /\ \A i \in DOMAIN opQueue : opQueue[i] \in Mutating

\* upload is Running and download, triggered meanwhile, is Pending.
MutualExclusionWitness ==
    /\ \E i \in DOMAIN running : running[i] = "upload"
    /\ opQueue = <<"download">>

\* C4.  When the setupCrons() call of activate() fails, the failure is
\* logged and activate() still completes: the disposables reach
\* context.subscriptions and the configuration listener is installed.
CronsFailureTolerated ==
    (cronsResult = "error" /\ pc \in {"done", "rejected"}) =>
        /\ pc = "done"
        /\ logged > 0
        /\ disposables # <<>>
        /\ subscriptions = disposables
        /\ listenerInstalled

\* C5.  No error of reload() leaves the watcher callback: each is caught and
\* logged; and after a failure a change event is still followed by a new
\* reload() call.
ReloadErrorContained ==
    /\ [](escaped = 0 /\ logged = failures)
    /\ ((failures > 0 /\ dirty) ~> ~dirty)

\* A reload() call runs after an earlier one threw and was logged.
ReloadErrorWitness ==
    failures > 0 /\ logged = failures /\ inflight = 1 /\ ~dirty

ExpectedNames ==
    {"createProfile", "deleteProfile", "download", "upload", "review",
     "reset", "switchProfile", "listMissingExtensions", "viewDifferences",
     "openProfileDirectory", "openProfileSettings", "openRepositoryDirectory",
     "openSettings"}

\* C7.  After activate() has completed, the registered commands are exactly
\* the thirteen names, prefixed 'syncSettings.', each once and each with the
\* handler of its own name.
CommandsRegisteredOnce ==
    pc = "done" =>
        /\ {registry[i].command : i \in DOMAIN registry}
               = {"syncSettings." \o n : n \in ExpectedNames}
        /\ \A i, j \in DOMAIN registry :
               registry[i].command = registry[j].command => i = j
        /\ \A i \in DOMAIN registry :
               registry[i].command = "syncSettings." \o registry[i].handler

\* activate() has completed and the host holds the registrations.
CommandsRegisteredWitness ==
    pc = "done" /\ Len(registry) = Cardinality(ExpectedNames)
        /\ Len(subscriptions) = Len(registry) + 1

\* C8.  No lost trigger: every change event is eventually followed by a
\* reload() call that starts after it.
NoLostTrigger == dirty ~> ~dirty

\* A change arrived while a reload was running, and its task is queued.
NoLostTriggerWitness == dirty /\ queuedFactory /\ timeout = 0

\* C9.  Settings.get() never fails with NotLoadedError, and commands are
\* registered, the watcher callback and the configuration listener are
\* installed, setupCrons() is called and handlers run only once
\* Settings.load() has succeeded; none of it happens when it fails.
LoadBeforeUse ==
    /\ notLoaded = 0
    /\ (\/ registry # <<>>
        \/ watcherInstalled
        \/ listenerInstalled
        \/ cronsCalled
        \/ timeout > 0
        \/ inflight > 0
        \/ running # <<>>
        \/ opQueue # <<>>) => loadState = "loaded"
    /\ pc = "rejected" /\ loadState = "failed" =>
           registry = <<>> /\ subscriptions = <<>> /\ timers = <<>>

\* After the load, a command handler has run and the watcher has started a
\* reload.
LoadBeforeUseWitness ==
    /\ loadState = "loaded"
    /\ cronsCalled
    /\ running # <<>>
    /\ inflight = 1

\* The what's-new policy on numbers: no message on install, on an unchanged
\* version or with 'none'; with 'major' when the major number grew; with
\* 'minor' when the pair (major, minor) grew; otherwise whenever the version
\* differs.
WhatsNewPolicy(prev, cur, notif) ==
    IF ~prev.defined \/ cur = prev.value \/ notif = "none" THEN FALSE
    ELSE LET c == Split(cur, Dot)
             p == Split(prev.value, Dot)
         IN IF notif = "major" THEN Num(c[1]) > Num(p[1])
            ELSE IF notif = "minor"
                 THEN \/ Num(c[1]) > Num(p[1])
                      \/ (Num(c[1]) = Num(p[1]) /\ Num(c[2]) > Num(p[2]))
            ELSE TRUE

\* C10.  Once activate() has decided, the what's-new message has been shown
\* exactly when the policy on numbers says so, also for parts of several
\* digits (9.x.y -> 10.x.y).
WhatsNewNumeric ==
    pc # "start" =>
        (shown = 1) = WhatsNewPolicy(previousVersion, currentVersion,
                                     notification)

====
